---- MODULE Spec2Model ----
(***************************************************************************)
(* Offline operation queue and sync driver of the Starlight Voyager app.   *)
(*                                                                         *)
(*   queueOfflineOperation / processSyncQueue   src/supabasecliente.js     *)
(*   SyncService                                src/src/services/          *)
(*                                              missionService.ts          *)
(*   AnnotationServiceV2                        src/unnamed/part_004       *)
(*   ConsensusService.voteOnAnnotation          src/unnamed/part_004       *)
(*   sync_queue, annotations, annotation_votes  src/supabase-schema.sql    *)
(*                                                                         *)
(* Every `await` of the source is a point where another task of the        *)
(* JavaScript event loop may run, so a drain is a process whose steps      *)
(* (getUser, select, replay one item, mark one item, store last_sync_time) *)
(* interleave with the other handlers.  Each request to the backend is     *)
(* atomic at the backend.                                                  *)
(*                                                                         *)
(* Backend responses.  A supabase request resolves to {data, error}; the   *)
(* source reads `error` where it wants it ("if (error) throw error").  A   *)
(* replayed operation therefore has three outcomes: "ok" (accepted; an     *)
(* update or delete that matches no row is accepted and touches nothing),  *)
(* "error" (the backend refused it and said so in the result object) and   *)
(* "throw" (the awaited call raised).  Requests on sync_queue are served,  *)
(* under the table's row level security; the select of a drain may return  *)
(* an error.                                                               *)
(***************************************************************************)
EXTENDS Integers, Sequences, FiniteSets, TLC

\* ------------------------------------------------------------- bounds
MaxItems == 2        \* queue items ever created (ids are never reused)
MaxRetries == 1      \* calls of retryFailedItem in one behaviour
MaxDirect == 1       \* rows created by online createAnnotation calls
MaxTimers == 3       \* calls of setInterval in one behaviour

Users == {"u1", "u2"}
FirstUser == "u1"
Drains == {"d1", "d2"}            \* concurrent executions of syncNow
SlotNo(d) == IF d = "d1" THEN 1 ELSE 2
RecordIds == {"r1"}               \* client-known primary keys of annotations
Null == "null"
NoUser == "nouser"
NoId == "noid"                    \* record_data without an id field
ErrMsg == "error.message"
Stamp == "timestamp"
NoTimer == 0                      \* SyncService.syncInterval = null

VARIABLES
  sync_queue,      \* table public.sync_queue: a set of rows
  nextId,          \* next primary key / creation instant of sync_queue
  annotations,     \* table public.annotations: a set of rows
  annotation_votes, \* table public.annotation_votes: a set of rows
  authUser,        \* supabase.auth.getUser(): the signed-in user or NoUser
  netConnected,    \* NetInfo: state.isConnected
  isOnline,        \* SyncService.isOnline
  syncInterval,    \* SyncService.syncInterval (handle: the stored timer or
                   \* NoTimer) and the timers of the runtime: those that
                   \* are live, and how many setInterval has made
  last_sync_time,  \* AsyncStorage 'last_sync_time'
  drain,           \* the executions of syncNow/processSyncQueue in flight
  retries,         \* the calls of retryFailedItem so far: the id given and
                   \* the status the item had
  result           \* what the last call of an AnnotationServiceV2 mutation
                   \* or of queueOfflineOperation returned

vars == <<sync_queue, nextId, annotations, annotation_votes, authUser,
          netConnected, isOnline, syncInterval, last_sync_time, drain,
          retries, result>>

\* ------------------------------------------------------------- tables

NewQueueRowFailedOnce(id, user, operation, tableName, recordId, now) ==
  [id |-> id, user_id |-> user, operation |-> operation,
   table_name |-> tableName, record_id |-> recordId,
   status |-> "pending", error_message |-> Null, attempts |-> 1,
   created_at |-> now, synced_at |-> Null]

\* public.sync_queue: column defaults status='pending', attempts=0,
\* created_at=NOW(); error_message and synced_at are nullable.
NewQueueRow(id, user, operation, tableName, recordId, now) ==
  [id |-> id, user_id |-> user, operation |-> operation,
   table_name |-> tableName, record_id |-> recordId,
   status |-> "pending", error_message |-> Null, attempts |-> 0,
   created_at |-> now, synced_at |-> Null]

RlsDisabled(row) == TRUE

\* Row level security of sync_queue: auth.uid() = user_id on every verb.
RlsOwn(row) == authUser # NoUser /\ row.user_id = authUser

HasItem(id) == \E r \in sync_queue : r.id = id
Item(id) == CHOOSE r \in sync_queue : r.id = id

\* A row of public.annotations: its primary key (client-given, or generated
\* by the database: then `item` and `seq` tell which insert created it).
AnnotationRow(key, item, seq) == [key |-> key, item |-> item, seq |-> seq]
HasRecord(rid) == \E a \in annotations : a.key = rid
RowsFrom(item) == {a \in annotations : a.item = item}

\* annotation_votes.annotation_id REFERENCES annotations(id) ON DELETE
\* CASCADE: the votes that are left when the annotations are anns
VotesOf(anns) ==
  {v \in annotation_votes : \E a \in anns : a.key = v.annotation_id}

\* .eq('user_id', user.id).eq('status', 'pending')  with count
PendingCount(user) ==
  Cardinality({r \in sync_queue : r.user_id = user /\ r.status = "pending"})

RECURSIVE OrderDescending(_)
OrderDescending(rows) ==
  IF rows = {} THEN <<>>
  ELSE LET m == CHOOSE r \in rows : \A q \in rows : r.created_at >= q.created_at
       IN <<m>> \o OrderDescending(rows \ {m})

\* .order('created_at', { ascending: true })
RECURSIVE OrderByCreatedAt(_)
OrderByCreatedAt(rows) ==
  IF rows = {} THEN <<>>
  ELSE LET m == CHOOSE r \in rows : \A q \in rows : r.created_at <= q.created_at
       IN <<m>> \o OrderByCreatedAt(rows \ {m})

\* ------------------------------------------------------------- drain slots
\* by: who called syncNow ("listener": the NetInfo listener, "call": any
\* other caller), kept until the select of processSyncQueue returns.
IdleDrain ==
  [pc |-> "idle", user |-> NoUser, pending |-> <<>>, idx |-> 0,
   outcome |-> Null, hit |-> FALSE, processed |-> 0, failed |-> 0,
   issued |-> {}, marked |-> {}, by |-> Null]

Current(d) == drain[d].pending[drain[d].idx]

Init ==
  /\ sync_queue = {}
  /\ nextId = 1
  /\ annotations \in {{}, {AnnotationRow(r, 0, 0) : r \in RecordIds}}
  /\ annotation_votes = {}
  /\ authUser = FirstUser
  /\ netConnected \in BOOLEAN
  /\ isOnline = TRUE
  /\ syncInterval = [handle |-> 1, live |-> {1}, made |-> 1]
  /\ last_sync_time = Null
  /\ drain = [d \in Drains |-> IdleDrain]
  /\ retries = <<>>
  /\ result = [call |-> Null, connected |-> TRUE, outcome |-> Null, queued |-> 0]

\* ------------------------------------------------------------- enqueue

\* queueOfflineOperation(operation, tableName, recordData)
QueueInsert(operation, tableName, recordId) ==
  /\ authUser # NoUser
  /\ nextId <= MaxItems
  /\ sync_queue' = sync_queue \cup
       {NewQueueRow(nextId, authUser, operation, tableName, recordId, nextId)}
  /\ nextId' = nextId + 1

\* A call of queueOfflineOperation by the application: without a user it
\* throws 'User not authenticated', with one it returns the inserted row.
\* (NetInfo is not asked.)
Enqueue(operation, recordId) ==
  /\ IF authUser = NoUser
       THEN /\ result' = [call |-> "enqueue", outcome |-> "error", queued |-> 0]
            /\ UNCHANGED <<sync_queue, nextId>>
       ELSE /\ QueueInsert(operation, "annotations", recordId)
            /\ result' = [call |-> "enqueue", outcome |-> "queued",
                          queued |-> nextId]
  /\ UNCHANGED annotation_votes
  /\ UNCHANGED <<annotations, authUser, netConnected, isOnline, syncInterval,
                 last_sync_time, drain, retries>>

\* ------------------------------------------------------------- drain

StartedWithoutUserTest(by) ==
  [IdleDrain EXCEPT !.pc = "fetch", !.user = authUser, !.by = by]

\* syncNow past its isOnline test, entering processSyncQueue: getUser
\* (missionService.ts 217-223, supabasecliente.js 241-244).  Without a user
\* processSyncQueue returns {0, 0} at once and syncNow goes on to store
\* last_sync_time.
Started(by) ==
  [IdleDrain EXCEPT !.pc = IF authUser = NoUser THEN "finish" ELSE "fetch",
                    !.user = authUser, !.by = by]

\* The executions in flight are told apart by d only: a new one takes the
\* first free place.
FreeSlot(d) ==
  /\ drain[d].pc = "idle"
  /\ \A e \in Drains : drain[e].pc = "idle" => SlotNo(d) <= SlotNo(e)

SyncNowStart(d) ==
  /\ FreeSlot(d)
  /\ isOnline
  /\ drain' = [drain EXCEPT ![d] = Started("call")]

\* AppContext.syncNow -> SyncService.syncNow (also the initial sync of
\* SyncService.initialize)
UserSyncNow(d) ==
  /\ SyncNowStart(d)
  /\ UNCHANGED annotation_votes
  /\ UNCHANGED <<sync_queue, nextId, annotations, authUser, netConnected,
                 isOnline, syncInterval, last_sync_time, retries, result>>

\* the setInterval callback of startPeriodicSync, run by a live timer
TimerFire(d) ==
  /\ syncInterval.live # {}
  /\ SyncNowStart(d)
  /\ UNCHANGED annotation_votes
  /\ UNCHANGED <<sync_queue, nextId, annotations, authUser, netConnected,
                 isOnline, syncInterval, last_sync_time, retries, result>>

AnyConnectedEvent(c) == c

\* wasOffline && this.isOnline, for an event with state.isConnected = c
CameOnline(c) == ~isOnline /\ c

\* the NetInfo listener of SyncService.initialize, run on an event with
\* state.isConnected = c
NetInfoEvent(c) ==
  /\ netConnected' = c
  /\ isOnline' = c
  /\ IF CameOnline(c)
       THEN \E d \in Drains :
              /\ FreeSlot(d)
              /\ drain' = [drain EXCEPT ![d] = Started("listener")]
       ELSE UNCHANGED drain
  /\ UNCHANGED annotation_votes
  /\ UNCHANGED <<sync_queue, nextId, annotations, authUser, syncInterval,
                 last_sync_time, retries, result>>

\* the select of processSyncQueue: the user's pending rows, oldest first
PendingRows(user) ==
  {r \in sync_queue : RlsOwn(r) /\ r.user_id = user /\ r.status = "pending"}

FetchPending(d) ==
  /\ drain[d].pc = "fetch"
  /\ LET pending == OrderByCreatedAt(PendingRows(drain[d].user))
     IN drain' = [drain EXCEPT ![d].pending = pending,
                               ![d].by = Null,
                               ![d].idx = 1,
                               ![d].pc = IF pending = <<>> THEN "finish"
                                                           ELSE "replay"]
  /\ UNCHANGED annotation_votes
  /\ UNCHANGED <<sync_queue, nextId, annotations, authUser, netConnected,
                 isOnline, syncInterval, last_sync_time, retries, result>>

StoredTimeAlways(threw) == Stamp

\* try { result = await processSyncQueue(); await AsyncStorage.setItem(
\* 'last_sync_time', ...); return result } catch { return {0, 0} }: the
\* value of last_sync_time when syncNow returns
StoredTime(threw) == IF threw THEN last_sync_time ELSE Stamp

\* the select returns an error: processSyncQueue throws, syncNow catches and
\* returns {0, 0} without storing last_sync_time
FetchError(d) ==
  /\ drain[d].pc = "fetch"
  /\ drain' = [drain EXCEPT ![d] = IdleDrain]
  /\ last_sync_time' = StoredTime(TRUE)
  /\ UNCHANGED annotation_votes
  /\ UNCHANGED <<sync_queue, nextId, annotations, authUser, netConnected,
                 isOnline, syncInterval, retries, result>>

\* What the backend does with a replayed operation.
TargetExists(item) == HasRecord(item.record_id)

BackendOutcomes(item) ==
  IF item.operation = "insert" /\ TargetExists(item)
    THEN {"error", "throw"}              \* duplicate primary key
    ELSE {"ok", "error", "throw"}

Applied(item) ==
  CASE item.operation = "insert" /\ item.record_id = NoId ->
         annotations \cup
           {AnnotationRow(NoId, item.id, Cardinality(RowsFrom(item.id)) + 1)}
    [] item.operation = "insert" /\ item.record_id # NoId ->
         annotations \cup {AnnotationRow(item.record_id, item.id, 0)}
    [] item.operation = "update" -> annotations
    [] item.operation = "delete" ->
         {a \in annotations : a.key # item.record_id}

\* the body of the try block up to the replayed request (258-267)
Replay(d, o) ==
  /\ drain[d].pc = "replay"
  /\ o \in BackendOutcomes(Current(d))
  /\ annotations' = IF o = "ok" THEN Applied(Current(d)) ELSE annotations
  /\ annotation_votes' = VotesOf(annotations')
  /\ drain' = [drain EXCEPT ![d].outcome = o,
                            ![d].hit = TargetExists(Current(d)),
                            ![d].issued = @ \cup {Current(d).id},
                            ![d].pc = "mark"]
  /\ UNCHANGED <<sync_queue, nextId, authUser, netConnected, isOnline,
                 syncInterval, last_sync_time, retries, result>>

\* The catch block runs only when an awaited call threw: the result object
\* of the replayed request is not looked at.
Caught(o) == o = "throw"

MarkSyncedNoStamp(row) == [row EXCEPT !.status = "synced"]

\* .update({ status: 'synced', synced_at: ... })
MarkSynced(row) == [row EXCEPT !.status = "synced", !.synced_at = Stamp]

MarkFailedSameAttempts(row, item) ==
  [row EXCEPT !.status = "failed", !.error_message = ErrMsg,
              !.attempts = item.attempts]

\* .update({ status: 'failed', error_message: error.message,
\*           attempts: item.attempts + 1 })
MarkFailed(row, item) ==
  [row EXCEPT !.status = "failed", !.error_message = ErrMsg,
              !.attempts = item.attempts + 1]

AbortOnFailure(d, caught) ==
  IF caught \/ drain[d].idx = Len(drain[d].pending) THEN "finish" ELSE "replay"

\* for (const item of pending || []) { try { ... } catch { ... } }: after
\* either branch the loop goes on to the next item, or ends after the last
LoopNext(d, caught) ==
  IF drain[d].idx = Len(drain[d].pending) THEN "finish" ELSE "replay"

\* the rest of one loop iteration (269-288)
Mark(d) ==
  /\ drain[d].pc = "mark"
  /\ LET item == Current(d)
         caught == Caught(drain[d].outcome)
     IN /\ sync_queue' =
             {IF r.id = item.id /\ RlsOwn(r)
                THEN (IF caught THEN MarkFailed(r, item) ELSE MarkSynced(r))
                ELSE r : r \in sync_queue}
        /\ drain' = [drain EXCEPT
             ![d].processed = IF caught THEN @ ELSE @ + 1,
             ![d].failed = IF caught THEN @ + 1 ELSE @,
             ![d].marked = @ \cup {item.id},
             ![d].outcome = Null,
             ![d].hit = FALSE,
             ![d].idx = @ + 1,
             ![d].pc = LoopNext(d, caught)]
  /\ UNCHANGED annotation_votes
  /\ UNCHANGED <<nextId, annotations, authUser, netConnected, isOnline,
                 syncInterval, last_sync_time, retries, result>>

\* processSyncQueue returned: syncNow stores last_sync_time and returns
Finish(d) ==
  /\ drain[d].pc = "finish"
  /\ last_sync_time' = StoredTime(FALSE)
  /\ drain' = [drain EXCEPT ![d] = IdleDrain]
  /\ UNCHANGED annotation_votes
  /\ UNCHANGED <<sync_queue, nextId, annotations, authUser, netConnected,
                 isOnline, syncInterval, retries, result>>

\* ------------------------------------------------------------- maintenance

RetryRowWithCutoff(row) ==
  IF row.attempts >= 1
    THEN row
    ELSE [row EXCEPT !.status = "pending", !.attempts = 0,
                     !.error_message = Null]

RetryRowAsNew(row) ==
  [row EXCEPT !.status = "pending", !.attempts = 0, !.error_message = Null,
              !.created_at = nextId]

RetryRowStatusOnly(row) == [row EXCEPT !.status = "pending"]

RetryRowKeepAttempts(row) ==
  [row EXCEPT !.status = "pending", !.error_message = Null]

\* .update({ status: 'pending', attempts: 0, error_message: null })
RetryRow(row) ==
  [row EXCEPT !.status = "pending", !.attempts = 0, !.error_message = Null]

\* SyncService.retryFailedItem(itemId): the update, then syncNow
RetryFailedItem(id, d) ==
  /\ Len(retries) < MaxRetries
  /\ HasItem(id)
  /\ sync_queue' = {IF r.id = id /\ RlsOwn(r) THEN RetryRow(r) ELSE r :
                      r \in sync_queue}
  /\ retries' = Append(retries, [id |-> id, status |-> Item(id).status])
  /\ IF isOnline
       THEN /\ FreeSlot(d)
            /\ drain' = [drain EXCEPT ![d] = Started("call")]
       ELSE UNCHANGED drain
  /\ UNCHANGED annotation_votes
  /\ UNCHANGED <<nextId, annotations, authUser, netConnected, isOnline,
                 syncInterval, last_sync_time, result>>

ClearedWhenNotPending(row) ==
  RlsOwn(row) /\ row.user_id = authUser /\ row.status # "pending"

\* .delete().eq('user_id', user.id).eq('status', 'synced')
Cleared(row) ==
  RlsOwn(row) /\ row.user_id = authUser /\ row.status = "synced"

\* SyncService.clearSyncedItems
ClearSyncedItems ==
  /\ authUser # NoUser
  /\ sync_queue' = {r \in sync_queue : ~Cleared(r)}
  /\ UNCHANGED annotation_votes
  /\ UNCHANGED <<nextId, annotations, authUser, netConnected, isOnline,
                 syncInterval, last_sync_time, drain, retries, result>>

\* .order('created_at', { ascending: false })
RECURSIVE OrderByCreatedAtDesc(_)
OrderByCreatedAtDesc(rows) ==
  IF rows = {} THEN <<>>
  ELSE LET m == CHOOSE r \in rows : \A q \in rows : r.created_at >= q.created_at
       IN <<m>> \o OrderByCreatedAtDesc(rows \ {m})

\* .eq('user_id', user.id).eq('status', 'failed')
FailedRows(user) ==
  {r \in sync_queue : RlsOwn(r) /\ r.user_id = user /\ r.status = "failed"}

\* What a caller of one of the two queries of SyncService gets back.
Counted(n) == [call |-> "pendingCount", count |-> n]
Listed(rows) == [call |-> "failedItems", items |-> rows]

\* SyncService.getPendingSyncCount: 0 without a user or when the select
\* returns an error, else the count of the user's pending rows
GetPendingSyncCount(error) ==
  /\ result' = Counted(IF authUser = NoUser \/ error THEN 0
                       ELSE Cardinality(PendingRows(authUser)))
  /\ UNCHANGED annotation_votes
  /\ UNCHANGED <<sync_queue, nextId, annotations, authUser, netConnected,
                 isOnline, syncInterval, last_sync_time, drain, retries>>

\* SyncService.getFailedSyncItems: [] without a user or when the select
\* returns an error, else the user's failed rows, newest first
GetFailedSyncItems(error) ==
  /\ result' = Listed(IF authUser = NoUser \/ error THEN <<>>
                      ELSE OrderByCreatedAtDesc(FailedRows(authUser)))
  /\ UNCHANGED annotation_votes
  /\ UNCHANGED <<sync_queue, nextId, annotations, authUser, netConnected,
                 isOnline, syncInterval, last_sync_time, drain, retries>>

\* ------------------------------------------------------------- annotations

\* What a caller of AnnotationServiceV2 gets back (outcome "error": the call
\* threw), with the connectivity there was at the call and the queue item
\* the call recorded (0: none).
Returned(call, connected, outcome, queued) ==
  [call |-> call, connected |-> connected, outcome |-> outcome, queued |-> queued]

\* createAnnotation, NetInfo not connected: queue the insert (the payload has
\* no id) and return the optimistic row
CreateAnnotationOffline ==
  /\ ~netConnected
  /\ QueueInsert("insert", "annotations", NoId)
  /\ result' = Returned("create", FALSE, "optimistic", nextId)
  /\ UNCHANGED annotation_votes
  /\ UNCHANGED <<annotations, authUser, netConnected, isOnline, syncInterval,
                 last_sync_time, drain, retries>>

\* createAnnotation, connected: insert directly; an error is thrown
CreateAnnotationOnline(o) ==
  /\ netConnected
  /\ authUser # NoUser
  /\ Cardinality(RowsFrom(0)) < MaxDirect
  /\ annotations' = IF o = "ok"
       THEN annotations \cup {AnnotationRow(NoId, 0, Cardinality(RowsFrom(0)) + 1)}
       ELSE annotations
  /\ result' = Returned("create", TRUE, o, 0)
  /\ UNCHANGED annotation_votes
  /\ UNCHANGED <<sync_queue, nextId, authUser, netConnected, isOnline,
                 syncInterval, last_sync_time, drain, retries>>

\* updateAnnotation: .update(updates).eq('id', id).select().single(); no row
\* back is an error, and any error is thrown.  NetInfo is not asked.
UpdateAnnotation(rid, o) ==
  /\ o = "ok" => HasRecord(rid)
  /\ result' = Returned("update", netConnected, o, 0)
  /\ UNCHANGED annotation_votes
  /\ UNCHANGED <<sync_queue, nextId, annotations, authUser, netConnected,
                 isOnline, syncInterval, last_sync_time, drain, retries>>

\* deleteAnnotation: .delete().eq('id', id); an error is thrown.  NetInfo is
\* not asked.
DeleteAnnotation(rid, o) ==
  /\ annotations' = IF o = "ok" THEN {a \in annotations : a.key # rid}
                                ELSE annotations
  /\ annotation_votes' = VotesOf(annotations')
  /\ result' = Returned("delete", netConnected, o, 0)
  /\ UNCHANGED <<sync_queue, nextId, authUser, netConnected, isOnline,
                 syncInterval, last_sync_time, drain, retries>>

\* ------------------------------------------------------------- votes

VoteValues == {-1, 0, 1}          \* CHECK (vote IN (-1, 0, 1))

\* id UUID PRIMARY KEY DEFAULT gen_random_uuid(): a key no row has
FreshVoteId ==
  CHOOSE i \in 1..(Cardinality(annotation_votes) + 1) :
    \A v \in annotation_votes : v.id # i

\* the row the request carries: { annotation_id, user_id, vote, comment },
\* no id, so the column default gives the key
VoteRow(annotationId, user, vote) ==
  [id |-> FreshVoteId, annotation_id |-> annotationId, user_id |-> user,
   vote |-> vote]

\* the insert policy of annotation_votes, the foreign key and
\* UNIQUE(annotation_id, user_id)
VoteInsertable(row) ==
  /\ authUser # NoUser /\ row.user_id = authUser
  /\ HasRecord(row.annotation_id)
  /\ \A v \in annotation_votes :
       ~(v.annotation_id = row.annotation_id /\ v.user_id = row.user_id)

\* .upsert(row) with no onConflict option: INSERT ... ON CONFLICT on the
\* primary key DO UPDATE.  A row with the same id is replaced; otherwise the
\* row is inserted, and the insert is refused when it breaks the foreign key,
\* the insert policy or UNIQUE(annotation_id, user_id).
Upsert(row) ==
  IF \E v \in annotation_votes : v.id = row.id
    THEN [outcome |-> "ok",
          rows |-> {IF v.id = row.id THEN row ELSE v : v \in annotation_votes}]
    ELSE IF VoteInsertable(row)
      THEN [outcome |-> "ok", rows |-> annotation_votes \cup {row}]
      ELSE [outcome |-> "error", rows |-> annotation_votes]

\* ConsensusService.voteOnAnnotation(annotationId, vote): throws without a
\* user and when the upsert returns an error, else returns the row
VoteOnAnnotation(annotationId, vote) ==
  /\ LET done == IF authUser = NoUser
                   THEN [outcome |-> "error", rows |-> annotation_votes]
                   ELSE Upsert(VoteRow(annotationId, authUser, vote))
     IN /\ annotation_votes' = done.rows
        /\ result' = [call |-> "vote", outcome |-> done.outcome, queued |-> 0]
  /\ UNCHANGED <<sync_queue, nextId, annotations, authUser, netConnected,
                 isOnline, syncInterval, last_sync_time, drain, retries>>

\* ------------------------------------------------------------- timer

\* setInterval(callback, 30000): a new live timer, and its handle
SetTimer(s) ==
  [handle |-> s.made + 1, live |-> s.live \cup {s.made + 1}, made |-> s.made + 1]

\* if (this.syncInterval) { clearInterval(this.syncInterval) }
ClearStored(s) ==
  IF s.handle # NoTimer THEN [s EXCEPT !.live = @ \ {s.handle}] ELSE s

RestartedWithoutClear(s) == SetTimer(s)

\* the body of startPeriodicSync
Restarted(s) == SetTimer(ClearStored(s))

\* the body of stopPeriodicSync
Stopped(s) ==
  IF s.handle # NoTimer THEN [ClearStored(s) EXCEPT !.handle = NoTimer] ELSE s

\* SyncService.startPeriodicSync
StartPeriodicSync ==
  /\ syncInterval.made < MaxTimers
  /\ syncInterval' = Restarted(syncInterval)
  /\ UNCHANGED annotation_votes
  /\ UNCHANGED <<sync_queue, nextId, annotations, authUser, netConnected,
                 isOnline, last_sync_time, drain, retries, result>>

\* SyncService.stopPeriodicSync
StopPeriodicSync ==
  /\ syncInterval' = Stopped(syncInterval)
  /\ UNCHANGED annotation_votes
  /\ UNCHANGED <<sync_queue, nextId, annotations, authUser, netConnected,
                 isOnline, last_sync_time, drain, retries, result>>

\* SyncService.initialize, called again: startPeriodicSync, then the
\* initial syncNow (which returns at once when the service is offline).
\* The NetInfo listener it adds acts as the one there is: whichever runs
\* first on an event sets isOnline, and the others see no change.
Initialize(d) ==
  /\ syncInterval.made < MaxTimers
  /\ syncInterval' = Restarted(syncInterval)
  /\ IF isOnline
       THEN /\ FreeSlot(d)
            /\ drain' = [drain EXCEPT ![d] = Started("call")]
       ELSE UNCHANGED drain
  /\ UNCHANGED annotation_votes
  /\ UNCHANGED <<sync_queue, nextId, annotations, authUser, netConnected,
                 isOnline, last_sync_time, retries, result>>

\* ------------------------------------------------------------- session

\* login screen: signIn(email, password) of a user of the backend
SignIn(u) ==
  /\ authUser = NoUser
  /\ authUser' = u
  /\ UNCHANGED annotation_votes
  /\ UNCHANGED <<sync_queue, nextId, annotations, netConnected, isOnline,
                 syncInterval, last_sync_time, drain, retries, result>>

\* profile screen: handleSignOut
SignOut ==
  /\ authUser # NoUser
  /\ authUser' = NoUser
  /\ UNCHANGED annotation_votes
  /\ UNCHANGED <<sync_queue, nextId, annotations, netConnected, isOnline,
                 syncInterval, last_sync_time, drain, retries, result>>

\* ------------------------------------------------------------- specification

DrainStep(d) ==
  \/ FetchPending(d)
  \/ FetchError(d)
  \/ \E o \in {"ok", "error", "throw"} : Replay(d, o)
  \/ Mark(d)
  \/ Finish(d)

\* The queue and its driver, with a user signed in: operations are queued
\* through queueOfflineOperation; drains are started by the timer, by the
\* user, by the connectivity listener and by retryFailedItem, and overlap.
Next ==
  \/ \E op \in {"insert", "update", "delete"}, rid \in RecordIds : Enqueue(op, rid)
  \/ \E d \in Drains : UserSyncNow(d)
  \/ \E d \in Drains : TimerFire(d)
  \/ \E c \in BOOLEAN : NetInfoEvent(c)
  \/ \E d \in Drains : DrainStep(d)
  \/ \E id \in 1..MaxItems, d \in Drains : RetryFailedItem(id, d)
  \/ ClearSyncedItems

InitQueue == Init /\ netConnected /\ annotations = {}

Spec == InitQueue /\ [][Next]_vars

\* The annotation service on top of the queue: connectivity comes and goes,
\* mutations are made through AnnotationServiceV2.
NextService ==
  \/ CreateAnnotationOffline
  \/ \E o \in {"ok", "error"} : CreateAnnotationOnline(o)
  \/ \E rid \in RecordIds, o \in {"ok", "error"} : UpdateAnnotation(rid, o)
  \/ \E rid \in RecordIds, o \in {"ok", "error"} : DeleteAnnotation(rid, o)
  \/ \E c \in BOOLEAN : NetInfoEvent(c)
  \/ \E d \in Drains : UserSyncNow(d)
  \/ \E d \in Drains : TimerFire(d)
  \/ \E d \in Drains : DrainStep(d)

SpecService == Init /\ [][NextService]_vars

\* The queue of a device on which users sign in and out: the rows of several
\* users are in the table, requests are made with and without a session.
\* The executions of syncNow follow one another here (they overlap in Spec).
NextSession ==
  \/ \E u \in Users : SignIn(u)
  \/ SignOut
  \/ \E op \in {"insert", "delete"}, rid \in RecordIds : Enqueue(op, rid)
  \/ UserSyncNow("d1")
  \/ DrainStep("d1")
  \/ ClearSyncedItems

SpecSession == InitQueue /\ [][NextSession]_vars

\* One user, signed in and online, calling syncNow, retryFailedItem and
\* clearSyncedItems: an execution of syncNow returns before the next starts.
NextRetry ==
  \/ \E op \in {"insert", "delete"}, rid \in RecordIds : Enqueue(op, rid)
  \/ UserSyncNow("d1")
  \/ DrainStep("d1")
  \/ \E id \in 1..MaxItems : RetryFailedItem(id, "d1")
  \/ ClearSyncedItems

SpecRetry == InitQueue /\ [][NextRetry]_vars

\* The queue of a device shared by two users, with every operation of
\* SyncService that reads or writes sync_queue; an execution of syncNow
\* returns before the next starts.
NextUsers ==
  \/ \E u \in Users : SignIn(u)
  \/ SignOut
  \/ \E rid \in RecordIds : Enqueue("insert", rid)
  \/ UserSyncNow("d1")
  \/ DrainStep("d1")
  \/ \E id \in 1..MaxItems : RetryFailedItem(id, "d1")
  \/ ClearSyncedItems
  \/ \E error \in BOOLEAN : GetPendingSyncCount(error)
  \/ \E error \in BOOLEAN : GetFailedSyncItems(error)

SpecUsers == InitQueue /\ [][NextUsers]_vars

\* The life cycle of the periodic timer: the service is initialized,
\* started and stopped any number of times while the queue is drained.  The
\* service stays online, and the initial sync and the callbacks of the timer
\* start a drain when none is in flight.
NextTimer ==
  \/ \E rid \in RecordIds : Enqueue("insert", rid)
  \/ Initialize("d1")
  \/ StartPeriodicSync
  \/ StopPeriodicSync
  \/ TimerFire("d1")
  \/ DrainStep("d1")

SpecTimer == InitQueue /\ [][NextTimer]_vars

\* Voting on annotations: users sign in and out and vote, annotations are
\* deleted (with their votes).
NextVotes ==
  \/ \E u \in Users : SignIn(u)
  \/ SignOut
  \/ \E rid \in RecordIds, v \in VoteValues : VoteOnAnnotation(rid, v)
  \/ \E rid \in RecordIds, o \in {"ok", "error"} : DeleteAnnotation(rid, o)

SpecVotes == Init /\ [][NextVotes]_vars

\* ------------------------------------------------------------- properties

Retried(id) == \E k \in 1..Len(retries) : retries[k].id = id
RetriedFailed(id) ==
  \E k \in 1..Len(retries) : retries[k].id = id /\ retries[k].status = "failed"

\* The step is retryFailedItem(id).
IsRetryOf(id) ==
  /\ Len(retries') = Len(retries) + 1
  /\ retries'[Len(retries')].id = id

\* C1: within one drain the fetched items are replayed in ascending
\* created_at order: when the replay of an item b has been issued, every
\* item a of the same fetch with a.created_at < b.created_at has already been
\* replayed and marked by this drain.
C1_DrainOrder ==
  \A d \in Drains :
    \A a, b \in 1..Len(drain[d].pending) :
      ( /\ drain[d].pending[b].id \in drain[d].issued
        /\ drain[d].pending[a].created_at < drain[d].pending[b].created_at )
      => /\ drain[d].pending[a].id \in drain[d].issued
         /\ drain[d].pending[a].id \in drain[d].marked

\* a drain that fetched two items has issued the replay of the later one
C1_Witness ==
  \E d \in Drains :
    \E a, b \in 1..Len(drain[d].pending) :
      /\ drain[d].pending[a].created_at < drain[d].pending[b].created_at
      /\ drain[d].pending[b].id \in drain[d].issued
      /\ drain[d].pc = "mark"

\* C2: the status of a queue item changes only pending -> synced,
\* pending -> failed, or failed -> pending by retryFailedItem of that item.
C2_StatusTransitions ==
  [][ \A r \in sync_queue : \A q \in sync_queue' :
        (q.id = r.id /\ q.status # r.status) =>
          \/ r.status = "pending" /\ q.status \in {"synced", "failed"}
          \/ r.status = "failed" /\ q.status = "pending" /\ IsRetryOf(r.id) ]_vars

\* C3: a failed item has attempts >= 1 and an error message; a pending item
\* carries no error message.
C3_FailedCarriesError ==
  \A r \in sync_queue :
    /\ r.status = "failed" => (r.attempts >= 1 /\ r.error_message # Null)
    /\ r.status = "pending" => r.error_message = Null

\* one item is failed, another is pending again after it had failed
C3_Witness ==
  \E r, q \in sync_queue :
    /\ r.status = "failed" /\ r.attempts >= 1
    /\ q.status = "pending" /\ RetriedFailed(q.id)

\* C4: a mutation queued while offline is never lost: an item the driver
\* is done with (synced: no drain fetches it again) has had its insert
\* applied, so the row it inserts is in annotations.
C4_NeverLost ==
  \A r \in sync_queue :
    (r.operation = "insert" /\ r.status = "synced") => RowsFrom(r.id) # {}

\* C5: an annotation mutation made without connectivity does not fail: it
\* is recorded in the queue and the caller gets the optimistic result.
C5_OfflineMutationQueued ==
  (result.call # Null /\ ~result.connected) =>
     /\ result.outcome = "optimistic"
     /\ result.queued # 0

\* C6: a drain marks an item by the result of its replay: accepted ->
\* synced with synced_at set; refused or thrown -> failed, attempts one
\* higher, error_message set.
C6_MarkFollowsReplay ==
  [][ \A d \in Drains :
        (Mark(d) /\ HasItem(Current(d).id)) =>
          \A q \in sync_queue' :
            q.id = Current(d).id =>
              IF drain[d].outcome = "ok"
                THEN q.status = "synced" /\ q.synced_at # Null
                ELSE /\ q.status = "failed"
                     /\ q.attempts = Item(q.id).attempts + 1
                     /\ q.error_message # Null ]_vars

\* C7: an update replayed when its target row is gone leaves the item
\* failed with attempts = 1 and an error message, and not pending.
C7_UpdateOfDeletedRowFails ==
  [][ \A d \in Drains :
        ( /\ Mark(d)
          /\ Current(d).operation = "update"
          /\ ~drain[d].hit
          /\ HasItem(Current(d).id) /\ Item(Current(d).id).status = "pending" ) =>
          \A q \in sync_queue' :
            q.id = Current(d).id =>
              /\ q.status = "failed" /\ q.attempts = 1 /\ q.error_message # Null
              /\ PendingCount(q.user_id)' = PendingCount(q.user_id) - 1 ]_vars

\* C8: an insert and a later update of the same record are replayed insert
\* first; an update replayed when its target row does not exist is recorded
\* as a failure.
C8_InsertThenUpdate ==
  [][ \A d \in Drains :
        /\ \A a, b \in 1..Len(drain[d].pending) :
             ( /\ drain[d].pending[a].operation = "insert"
               /\ drain[d].pending[b].operation = "update"
               /\ drain[d].pending[a].record_id = drain[d].pending[b].record_id
               /\ drain[d].pending[a].created_at < drain[d].pending[b].created_at
               /\ drain[d].pending[b].id \in drain[d].issued )
             => drain[d].pending[a].id \in drain[d].marked
        /\ (Mark(d) /\ Current(d).operation = "update" /\ ~drain[d].hit) =>
             \A q \in sync_queue' : q.id = Current(d).id => q.status = "failed" ]_vars

C10_RetryResetsBeforeReplay ==
  \A d \in Drains :
    ( /\ drain[d].pc = "mark"
      /\ Retried(Current(d).id)
      /\ HasItem(Current(d).id)
      /\ Item(Current(d).id).status = "pending" ) =>
      /\ Item(Current(d).id).attempts = 0
      /\ Item(Current(d).id).error_message = Null
      /\ Current(d).attempts = 0
      /\ Current(d).error_message = Null

\* a drain has issued the replay of an item that had failed and was retried
C10_Witness ==
  \E d \in Drains :
    /\ drain[d].pc = "mark"
    /\ RetriedFailed(Current(d).id)
    /\ HasItem(Current(d).id)
    /\ Item(Current(d).id).status = "pending"
    /\ Item(Current(d).id).attempts = 0

\* C11: clearSyncedItems deletes exactly the synced items of the signed-in
\* user: every other row (pending, failed, or of another user) is in the
\* table afterwards, unchanged, and no row is added.
C11_ClearOnlySynced ==
  [][ ClearSyncedItems =>
        /\ \A r \in sync_queue :
             (r.user_id = authUser /\ r.status = "synced") <=> r \notin sync_queue'
        /\ sync_queue' \subseteq sync_queue ]_vars

\* an item is gone from the table while a failed item, or a synced item of
\* another user, is still there
C11_Witness ==
  /\ authUser # NoUser
  /\ \E id \in 1..(nextId - 1) : ~HasItem(id)
  /\ \E r \in sync_queue :
       \/ r.status = "failed"
       \/ r.status = "synced" /\ r.user_id # authUser

\* C12: queueOfflineOperation without a signed-in user is rejected with an
\* error and adds no item; with a user it adds exactly one item, owned by
\* that user, pending, attempts 0, no error message, no synced_at, and leaves
\* the existing items as they were.
C12_EnqueueNeedsUser ==
  [][ \A op \in {"insert", "update", "delete"}, rid \in RecordIds :
        Enqueue(op, rid) =>
          IF authUser = NoUser
            THEN /\ sync_queue' = sync_queue
                 /\ result'.call = "enqueue" /\ result'.outcome = "error"
            ELSE \E q \in sync_queue' :
                   /\ \A r \in sync_queue : r.id # q.id
                   /\ sync_queue' = sync_queue \cup {q}
                   /\ q.user_id = authUser
                   /\ q.operation = op /\ q.record_id = rid
                   /\ q.status = "pending" /\ q.attempts = 0
                   /\ q.error_message = Null /\ q.synced_at = Null
                   /\ result'.outcome = "queued" /\ result'.queued = q.id ]_vars

\* a call was rejected for want of a user, while an item queued earlier by a
\* user is in the table
C12_Witness ==
  /\ authUser = NoUser
  /\ result.call = "enqueue" /\ result.outcome = "error"
  /\ sync_queue # {}

\* the ids of the items a drain fetched
Fetched(d) == {drain[d].pending[k].id : k \in 1..Len(drain[d].pending)}

MarkReaches(d) == HasItem(Current(d).id) /\ RlsOwn(Item(Current(d).id))

\* C14: the counts of a drain are what it did: each step that counts an
\* item as processed has marked that item synced, each step that counts one
\* as failed has marked it failed, nothing else is counted, and at the end
\* processed + failed is the number of items fetched.
C14_CountsWhatWasDone ==
  [][ \A d \in Drains :
        /\ Mark(d) =>
             /\ drain'[d].processed + drain'[d].failed =
                  drain[d].processed + drain[d].failed
                    + (IF MarkReaches(d) THEN 1 ELSE 0)
             /\ drain'[d].processed > drain[d].processed =>
                  \E q \in sync_queue' : q.id = Current(d).id /\ q.status = "synced"
             /\ drain'[d].failed > drain[d].failed =>
                  \E q \in sync_queue' : q.id = Current(d).id /\ q.status = "failed"
        /\ drain[d].pc = "finish" =>
             drain[d].processed + drain[d].failed = Len(drain[d].pending) ]_vars

\* The step is the replay of item id by a drain.
IsReplayOf(id) ==
  \E d \in Drains :
    /\ drain[d].pc = "replay" /\ drain'[d].pc = "mark"
    /\ Current(d).id = id

\* C15: a failed item is not retried automatically: while an item is
\* failed, no step replays its operation or changes or removes its row,
\* except retryFailedItem called for that item.
C15_NoAutomaticRetry ==
  [][ \A r \in sync_queue :
        r.status = "failed" =>
          \/ IsRetryOf(r.id)
          \/ r \in sync_queue' /\ ~IsReplayOf(r.id) ]_vars

\* C16: at most one execution of processSyncQueue is in flight.
C16_OneDrainInFlight ==
  Cardinality({d \in Drains : drain[d].pc # "idle"}) <= 1

\* the drains that start in this step
StartedNow == {d \in Drains : drain[d].pc = "idle" /\ drain'[d].pc # "idle"}

\* C17: a connectivity event starts a drain exactly when the online flag
\* goes from false to true, and then one drain, started by the listener; no
\* other caller of syncNow (timer, user, retryFailedItem) starts a drain
\* while the flag is false: such a call leaves the queue, the drains and
\* last_sync_time as they are.
C17_DrainTriggers ==
  [][ /\ (~isOnline /\ isOnline') =>
           \E d \in StartedNow : drain'[d].by = "listener"
      /\ \A d \in StartedNow :
           drain'[d].by = "listener" <=> (~isOnline /\ isOnline')
      /\ ( /\ isOnline' # isOnline \/ netConnected' # netConnected
           /\ ~(~isOnline /\ isOnline') ) => StartedNow = {}
      /\ StartedNow # {} => isOnline'
      /\ Cardinality(StartedNow) <= 1 ]_vars

\* connectivity is back, the listener has started a drain, and a pending
\* item of the user waits for it
C17_Witness ==
  /\ isOnline /\ netConnected
  /\ PendingCount(authUser) > 0
  /\ \E d \in Drains : drain[d].pc = "fetch" /\ drain[d].by = "listener"

\* C18: a row of sync_queue is removed only by clearSyncedItems, and while
\* it is in the table its id, user_id, operation, table_name, record data
\* and created_at stay as queueOfflineOperation wrote them.
C18_ItemFrame ==
  [][ \A r \in sync_queue :
        /\ (\A q \in sync_queue' : q.id # r.id) =>
             (ClearSyncedItems /\ r.status = "synced" /\ r.user_id = authUser)
        /\ \A q \in sync_queue' :
             q.id = r.id =>
               /\ q.user_id = r.user_id
               /\ q.operation = r.operation
               /\ q.table_name = r.table_name
               /\ q.record_id = r.record_id
               /\ q.created_at = r.created_at ]_vars

\* an item has failed, was retried and is synced, still as it was queued,
\* and another item has been cleared
C18_Witness ==
  /\ \E r \in sync_queue :
       /\ RetriedFailed(r.id)
       /\ r.status = "synced" /\ r.attempts = 0
       /\ r.created_at = r.id /\ r.user_id = FirstUser
  /\ \E id \in 1..(nextId - 1) : ~HasItem(id)

C20_RetryDrainsItem ==
  \A k \in 1..Len(retries) :
    ( /\ retries[k].status = "failed"
      /\ HasItem(retries[k].id) /\ RlsOwn(Item(retries[k].id))
      /\ isOnline
      /\ \A d \in Drains : drain[d].pc = "idle" )
    => Item(retries[k].id).status # "pending"

\* C21: an operation is applied at most once per pending episode.  When a
\* drain replays an item, the item's row is pending and no other drain has
\* replayed it without having marked it yet (a row that is synced, failed or
\* cleared was marked after a replay of this episode); and the inserts of
\* one queue item have put at most one row into annotations.
C21_AtMostOncePerEpisode ==
  [][ /\ \A d \in Drains :
           (drain[d].pc = "replay" /\ drain'[d].pc = "mark") =>
             /\ HasItem(Current(d).id)
             /\ Item(Current(d).id).status = "pending"
             /\ \A e \in Drains \ {d} :
                  ~(drain[e].pc = "mark" /\ Current(e).id = Current(d).id)
      /\ \A r \in sync_queue : Cardinality(RowsFrom(r.id)') <= 1 ]_vars

\* C22: retryFailedItem changes an item only if it is failed: called with
\* the id of a synced or a pending item it leaves the row as it is (so a
\* synced operation is not made pending, and not replayed again).
C22_RetryOnlyFailed ==
  [][ \A r \in sync_queue :
        (IsRetryOf(r.id) /\ r.status # "failed") => r \in sync_queue' ]_vars

\* C23: the attempts counter of every queue item is 0 or 1, and it is 0 on
\* every pending item: a drain writes the fetched attempts + 1 on a failure,
\* and an item is pending only as queued or as reset by retryFailedItem.
C23_AttemptsZeroOrOne ==
  /\ \A r \in sync_queue :
       /\ r.attempts \in {0, 1}
       /\ r.status = "pending" => r.attempts = 0
  /\ \A d \in Drains : \A k \in 1..Len(drain[d].pending) :
       drain[d].pending[k].attempts = 0

\* an item that had failed and was retried has failed again, its drain has
\* returned, and its attempts counter is 1
C23_Witness ==
  /\ \A d \in Drains : drain[d].pc = "idle"
  /\ \E r \in sync_queue :
       RetriedFailed(r.id) /\ r.status = "failed" /\ r.attempts = 1

\* C24: synced_at is set exactly on the synced items: every synced item has
\* a synced_at, and no pending or failed item has one.
C24_SyncedAtIffSynced ==
  \A r \in sync_queue : r.status = "synced" <=> r.synced_at # Null

\* the drain has fetched its items and has not returned yet
Running(d) == drain[d].pc \in {"replay", "mark"}

\* C25: a drain works on the items it fetched.  Its list is not changed by
\* anything that happens after the select; it replays and marks items of
\* the list only, so an item queued after the select is left pending by this
\* drain; a select takes every pending item of the user (the next drain
\* fetches the new item); and an item that is retried after the select is
\* not replayed by this drain: when a failed item is retried, no running
\* drain still has it ahead in its list.
C25_DrainWorksOnSnapshot ==
  [][ \A d \in Drains :
        /\ (Running(d) /\ Running(d)') =>
             drain'[d].pending = drain[d].pending
        /\ (Running(d) /\ drain'[d] # drain[d]) =>
             /\ Current(d).id \in Fetched(d)
             /\ \A r \in sync_queue :
                  (r.id \notin Fetched(d) /\ ~IsRetryOf(r.id)) => r \in sync_queue'
        /\ FetchPending(d) =>
             Fetched(d)' = {r.id : r \in {q \in sync_queue :
                              q.user_id = authUser /\ q.status = "pending"}}
        /\ \A r \in sync_queue :
             (IsRetryOf(r.id) /\ r.status = "failed" /\ Running(d)) =>
               r.id \notin Fetched(d) \ drain[d].issued ]_vars

\* C26: syncNow returns on every path.  When the select of the drain
\* returns an error, syncNow returns with nothing counted, no queue item and
\* no annotation changed and last_sync_time as it was; last_sync_time is
\* written only by the return of a drain that ended normally, and a drain
\* is started only with the online flag true.
C26_SyncNowCatches ==
  [][ /\ \A d \in Drains :
           FetchError(d) =>
             /\ drain'[d] = IdleDrain
             /\ drain[d].processed = 0 /\ drain[d].failed = 0
             /\ sync_queue' = sync_queue /\ annotations' = annotations
             /\ last_sync_time' = last_sync_time
      /\ last_sync_time' # last_sync_time =>
           \E d \in Drains : drain[d].pc = "finish" /\ drain'[d] = IdleDrain
      /\ \A d \in Drains :
           (drain[d].pc = "finish" /\ drain'[d] = IdleDrain) =>
             last_sync_time' = Stamp
      /\ StartedNow # {} => isOnline' ]_vars

\* a drain was started and returned on a failed select: the service is
\* online, a call of retryFailedItem has been made (it calls syncNow when
\* online, and coming back online starts a drain), no drain is in flight,
\* and last_sync_time has never been written
C26_Witness ==
  /\ retries # <<>>
  /\ isOnline /\ netConnected
  /\ \A d \in Drains : drain[d].pc = "idle"
  /\ last_sync_time = Null
  /\ PendingCount(authUser) > 0

\* C27: a drain entered with no signed-in user returns {0, 0} at once: it
\* makes no select, replays nothing and changes no row of sync_queue or of
\* annotations, of any user.
C27_NoUserNoDrain ==
  [][ \A d \in Drains :
        /\ (d \in StartedNow /\ authUser = NoUser) =>
             /\ drain'[d].pc = "finish" /\ drain'[d].user = NoUser
             /\ sync_queue' = sync_queue /\ annotations' = annotations
        /\ (drain[d].pc # "idle" /\ drain[d].user = NoUser) =>
             /\ drain[d].pc = "finish"
             /\ drain[d].pending = <<>>
             /\ drain[d].processed = 0 /\ drain[d].failed = 0
             /\ drain[d].issued = {} /\ drain[d].marked = {}
             /\ drain'[d] # drain[d] =>
                  /\ drain'[d] = IdleDrain
                  /\ sync_queue' = sync_queue /\ annotations' = annotations ]_vars

\* a drain entered without a user is about to return, while pending items
\* (queued by a user who has signed out since) are in the table
C27_Witness ==
  /\ \E d \in Drains : drain[d].pc = "finish" /\ drain[d].user = NoUser
  /\ \E r \in sync_queue : r.status = "pending"
  /\ \E r \in sync_queue : r.status # "pending"

\* C28: queue operations are confined to the acting user's items.  No step
\* changes or deletes a row of sync_queue whose user_id is not the signed-in
\* user; the select of a drain returns rows of the user it runs for only,
\* and getPendingSyncCount and getFailedSyncItems count and return rows of
\* the signed-in user only.
C28_UserConfinement ==
  [][ /\ \A r \in sync_queue : r.user_id # authUser => r \in sync_queue'
      /\ \A d \in Drains :
           FetchPending(d) =>
             \A k \in 1..Len(drain'[d].pending) :
               /\ drain'[d].pending[k].user_id = drain[d].user
               /\ drain'[d].pending[k].user_id = authUser
      /\ \A error \in BOOLEAN :
           GetFailedSyncItems(error) =>
             \A k \in 1..Len(result'.items) :
               result'.items[k].user_id = authUser
      /\ \A error \in BOOLEAN :
           GetPendingSyncCount(error) =>
             result'.count <= Cardinality({r \in sync_queue :
               r.user_id = authUser /\ r.status = "pending"}) ]_vars

\* a user has been given the list of their failed items while a failed item
\* of the other user is in the table, and an item has been retried
C28_Witness ==
  /\ result.call = "failedItems" /\ Len(result.items) = 1
  /\ result.items[1].user_id = authUser
  /\ \E r \in sync_queue : r.status = "failed" /\ r.user_id # authUser
  /\ retries # <<>>

\* C29: at most one periodic timer is live, and it is the one whose handle
\* SyncService holds; after stopPeriodicSync no timer is live and the handle
\* is null, so no timer callback starts a drain until startPeriodicSync (or
\* initialize) sets a timer again.
C29_OneTimer ==
  [][ /\ Cardinality(syncInterval.live) <= 1
      /\ syncInterval.live \subseteq {syncInterval.handle}
      /\ syncInterval.handle = NoTimer => syncInterval.live = {}
      /\ StopPeriodicSync =>
           (syncInterval'.live = {} /\ syncInterval'.handle = NoTimer)
      /\ \A d \in Drains : TimerFire(d) => syncInterval.handle # NoTimer
      /\ (StartPeriodicSync \/ \E d \in Drains : Initialize(d)) =>
           syncInterval'.live = {syncInterval'.handle} ]_vars

\* the timer was set, set again and then stopped: none is live, and a
\* pending item waits
C29_Witness ==
  /\ syncInterval.made >= 2
  /\ syncInterval.handle = NoTimer /\ syncInterval.live = {}
  /\ \A d \in Drains : drain[d].pc = "idle"
  /\ PendingCount(authUser) > 0

\* C30: voteOnAnnotation is an upsert per (annotation, user): there is at
\* most one row of annotation_votes for each pair, and a vote by a signed-in
\* user on an existing annotation succeeds and leaves exactly one row for
\* the pair, carrying the vote just given, whether or not the user had voted
\* on that annotation before.
C30_VoteUpsert ==
  [][ /\ \A v, w \in annotation_votes :
           (v.annotation_id = w.annotation_id /\ v.user_id = w.user_id) => v = w
      /\ \A rid \in RecordIds, x \in VoteValues :
           (VoteOnAnnotation(rid, x) /\ authUser # NoUser /\ HasRecord(rid)) =>
             /\ result'.outcome = "ok"
             /\ \E v \in annotation_votes' :
                  /\ v.annotation_id = rid /\ v.user_id = authUser /\ v.vote = x
                  /\ \A w \in annotation_votes' :
                       (w.annotation_id = rid /\ w.user_id = authUser) => w = v ]_vars

====
